---- MODULE Spec2Model ----
(***************************************************************************)
(* Feedback scheduling of the Telegram feedback bot.                       *)
(*                                                                         *)
(* The repository holds two definitions of the scheduling pass             *)
(* check_and_schedule_feedback_requests:                                   *)
(*   - bot.py:486 adds, ahead of the class end, one APScheduler 'date'     *)
(*     job per (chat_id, date) to the in-memory module scheduler of        *)
(*     bot.py:55.  Nothing starts that scheduler, so its jobs stay in the  *)
(*     list of pending jobs: get_jobs() lists them, add_job appends to the *)
(*     list without looking at the ids, and none of them is ever run;      *)
(*   - database.py:342 collects, within 10 minutes after the class end,    *)
(*     the chat ids of the group into the local list users_to_notify.      *)
(* bot.py imports the second and rebinds the name to the first, so one     *)
(* process runs one of them: impl says which.                              *)
(*                                                                         *)
(* The passes are started by the two trigger jobs of setup_scheduler        *)
(* (bot.py:885): 'initial_check', once after the process starts, and       *)
(* 'check_schedule', every 10 minutes from then on.  setup_scheduler hands *)
(* their scheduler to its caller, which is taken to start it.              *)
(*                                                                         *)
(* main (bot.py:1142) does not call setup_scheduler: a process started by  *)
(* main serves the registration handlers and runs no pass.  entry says     *)
(* which of the two started the running process.                           *)
(*                                                                         *)
(* Time is an instant counted in minutes, date * MinutesPerDay + minute of *)
(* the day.  The clock visits the instants around the class ends of the    *)
(* day and the last minute of the day.                                     *)
(*                                                                         *)
(* The repository also holds two registration conversations: the one of    *)
(* bot.py (start, group_choice, start_date_entered, cancel), which stores  *)
(* the row at the entry command and fills it in, and the one of the        *)
(* handlers package (handlers/start.py), which stores the row at the end.  *)
(* The ConversationHandler is taken to pass the entry command to its entry *)
(* point, and a handler that raises leaves the conversation where it was.  *)
(* Names imported from utils are those of utils.py.  last records the      *)
(* handler call that returned last: its input as typed and the table, the  *)
(* state of the conversation and user_data before it.                      *)
(*                                                                         *)
(* Specifications:                                                         *)
(*   Spec        the passes over the default schedules table;              *)
(*   TableSpec   the passes over a table with rows of both groups on one   *)
(*               day, at two class ends;                                   *)
(*   StoreSpec   as TableSpec, from an empty or a populated table, with    *)
(*               store reads that fail, init_schedule that fails, the      *)
(*               process started by main and the registration handlers;    *)
(*   ScriptSpec  one run of scripts/send_feedback_reminders.py;            *)
(*   RegSpec     the handlers of both applications and add_manager, with a *)
(*               database and a transport that can fail;                   *)
(*   AvailSpec   one run of a service-availability check of set_webhook.py,*)
(*               check_bot.py or webhook_diagnose.py (AvailLive: the run   *)
(*               goes on);                                                 *)
(*   OpsSpec     runs of setup_render.py run_setup against the webhook     *)
(*               Telegram holds, and the import of database.py followed by *)
(*               calls of check_database_connection.                       *)
(***************************************************************************)
EXTENDS Integers, Sequences, FiniteSets, TLC

VARIABLES now,        \* the wall clock (Europe/Moscow), an instant
          impl,       \* which definition of the pass the process runs
          users,      \* table users: chat_id -> row
          schedules,  \* table schedules: sequence of rows, in id order
          jobs,       \* pending jobs of the module-level scheduler of bot.py:
                      \* job id -> number of jobs of that id
          dispatched, \* (chat_id, date) -> dispatches created: jobs added (bot.py),
                      \* entries appended to users_to_notify (database.py)
          pass,       \* the two trigger jobs' passes: position and locals
          up,         \* the process is running
          bootAt,     \* instant the running process started at
          nextPoll,   \* next run time of the interval job 'check_schedule'
          initialDue, \* the date job 'initial_check' has not run yet
          skipped,    \* a run of 'check_schedule' was skipped since the start
          found,      \* (chat_id, date) pairs some pass found eligible
          restarts,   \* process restarts so far
          entry,      \* how the running process was started
          invoked,    \* a pass was invoked since the process started
          inits,      \* calls of init_schedule that returned True
          sent,       \* (chat_id, date) -> send_message calls for the prompt
          conv,       \* chat_id -> state of the registration conversation
          rem,        \* the run of scripts/send_feedback_reminders.py
          records,    \* chat_id -> number of rows of table users with it
          user_data,  \* chat_id -> the group kept in context.user_data
          creates,    \* chat_id -> calls of create_new_user in its conversation
          manager,    \* a manager/administrator chat id is configured
          adding,     \* the call of add_manager that runs
          last,       \* the handler call that returned last
          avail,      \* the run of a service-availability check
          setup,      \* the run of setup_render.py run_setup
          hook,       \* the webhook URL Telegram holds for the bot
          DB_READY,   \* the module-level flag DB_READY of database.py
          health      \* the process that imports database.py and checks it

(* The variables of the handlers. *)
regvars == <<records, user_data, creates, manager, adding, last>>

(* The variables of the bot and of the reminder script. *)
botvars == <<now, impl, users, schedules, jobs, dispatched, pass,
             up, bootAt, nextPoll, initialDue, skipped, found, restarts,
             entry, invoked, inits, sent, conv, rem, regvars>>

(* The variables of the operational scripts and of the database module. *)
opsvars == <<avail, setup, hook, DB_READY, health>>

vars == <<botvars, opsvars>>

---------------------------------------------------------------------------
(* Bounds of the model *)

FirstDate == 4
MaxDays == 1
MaxCount == 2
MaxRestarts == 1

(* Program constants *)

GraceWindow == 10
PollInterval == 10

MinutesPerDay == 24 * 60
LastMinute == MinutesPerDay - 1
NullDate == 0 - 1
LastDate == FirstDate + MaxDays

ChatIds == {1, 2}
Dates == FirstDate .. LastDate
Keys == ChatIds \X Dates
Slots == {"check_schedule", "initial_check"}
Groups == {"weekday", "weekend"}

---------------------------------------------------------------------------
(* Clock and calendar *)

Combine(date, time) == date * MinutesPerDay + time
DateOf(t) == t \div MinutesPerDay
TimeOf(t) == t % MinutesPerDay
get_weekday(t) == DateOf(t) % 7

Min(S) == CHOOSE x \in S : \A y \in S : x <= y

(* Default rows that lack the row of the weekend group. *)
SeedWithoutWeekend ==
    [i \in 1..5 |->
        [group_type |-> "weekday", day_of_week |-> i - 1, end_time |-> 18 * 60]]

(* The default schedule table of init_schedule. *)
SeedSchedules ==
    [i \in 1..6 |->
        IF i <= 5
        THEN [group_type |-> "weekday", day_of_week |-> i - 1, end_time |-> 18 * 60]
        ELSE [group_type |-> "weekend", day_of_week |-> 5, end_time |-> 14 * 60]]

(* A table that was filled in the database by other means: on Saturday the *)
(* weekend group has classes that end at 14:00 and at 14:10 and the        *)
(* weekday group a class that ends at 14:10.                               *)
AltSchedules ==
    <<[group_type |-> "weekend", day_of_week |-> 5, end_time |-> 14 * 60],
      [group_type |-> "weekday", day_of_week |-> 5, end_time |-> 14 * 60 + 10],
      [group_type |-> "weekend", day_of_week |-> 5, end_time |-> 14 * 60 + 10]>>

Offsets == {0 - 11, 0 - 10, 0 - 7, 0 - 1, 0, 3, 9, 10, 13}

(* The class ends the clock is sampled around: those of the table, and of   *)
(* the default table while the table is empty.                              *)
ClockTable == IF schedules = <<>> THEN SeedSchedules ELSE schedules

(* The instants of day d the clock visits. *)
ClockPoints(d) ==
    { Combine(d, ClockTable[i].end_time + o) :
        i \in {k \in DOMAIN ClockTable : ClockTable[k].day_of_week = d % 7},
        o \in Offsets }
    \cup { Combine(d, LastMinute) }

AllInstants == UNION { ClockPoints(d) : d \in Dates }
LastInstant == Combine(LastDate, LastMinute)
NextInstant(t) == Min({ x \in AllInstants : x > t })

---------------------------------------------------------------------------
(* Rows of the users table *)

StartDates == { NullDate, Combine(FirstDate, 0), Combine(FirstDate + 1, 0) }

UserRows ==
    { r \in [group_type : Groups \cup {"NULL"}, start_date : StartDates,
             is_active : BOOLEAN] :
        r.group_type = "NULL" => r.start_date = NullDate }

SecondRows ==
    { r \in UserRows : r.is_active /\ r.start_date = Combine(FirstDate, 0) }

UserTables ==
    { t \in UNION { [S -> UserRows] : S \in SUBSET ChatIds } :
        2 \in DOMAIN t => t[2] \in SecondRows }

---------------------------------------------------------------------------
(* The queries and comparisons of the pass *)

RECURSIVE SetToSeq(_)
SetToSeq(S) ==
    IF S = {} THEN <<>>
    ELSE LET c == Min(S) IN <<c>> \o SetToSeq(S \ {c})

(* Users of the group whatever their is_active. *)
BotUsersAnyStatus(u, group_type, current_time) ==
    { c \in DOMAIN u :
        /\ u[c].group_type = group_type
        /\ u[c].start_date # NullDate
        /\ u[c].start_date <= current_time }

(* bot.py: users of the group, active, start date not after current_time. *)
BotUsers(u, group_type, current_time) ==
    { c \in DOMAIN u :
        /\ u[c].group_type = group_type
        /\ u[c].is_active
        /\ u[c].start_date # NullDate
        /\ u[c].start_date <= current_time }

(* database.py: users of the group, active. *)
get_users_in_group(u, group_type) ==
    { c \in DOMAIN u : u[c].group_type = group_type /\ u[c].is_active }

(* A comparison that also skips the class end itself. *)
PastClassEndOrAt(current_time, class_end_time) == current_time >= class_end_time

(* bot.py: "if current_time > class_end_time: continue". *)
PastClassEnd(current_time, class_end_time) == current_time > class_end_time

(* Windows other than the one of the code: without an end, and half as long. *)
AfterClassEnd(time_diff) == 0 <= time_diff
InHalfWindow(time_diff) == 0 <= time_diff /\ 2 * time_diff <= GraceWindow

(* A window that opens ten minutes before the class end. *)
AroundClassEnd(time_diff) ==
    0 - GraceWindow <= time_diff /\ time_diff <= GraceWindow

(* database.py: "if 0 <= time_diff <= 10". *)
InGraceWindow(time_diff) == 0 <= time_diff /\ time_diff <= GraceWindow

(* session.commit(): the rows the session changed replace the table's. *)
Flush(table, dirty) ==
    [c \in DOMAIN table \cup DOMAIN dirty |->
        IF c \in DOMAIN dirty THEN dirty[c] ELSE table[c]]

(* A pass that marks the users it selected as inactive. *)
PassDeactivates(u, chats) ==
    [c \in chats \cap DOMAIN u |-> [u[c] EXCEPT !.is_active = FALSE]]

(* The user rows a pass changes in its session: none.  The pass only runs   *)
(* queries and closes the session.                                          *)
PassWrites(u, chats) == <<>>

(* The sequence without its n-th element. *)
RemoveAt(q, n) == SubSeq(q, 1, n - 1) \o SubSeq(q, n + 1, Len(q))

(* A test that takes every table to need the default rows. *)
AlwaysSeed(table) == TRUE

(* init_schedule: "if schedule_count == 0". *)
NeedsSeed(table) == Len(table) = 0

(* init_schedule: the table after a call that returns True. *)
init_schedule(table) ==
    IF NeedsSeed(table) THEN table \o SeedSchedules ELSE table

SchedulesFor(weekday) ==
    SelectSeq(schedules, LAMBDA s : s.day_of_week = weekday)

Item(c, s) == [chat |-> c, group_type |-> s.group_type, end_time |-> s.end_time]

RECURSIVE ItemsOf(_, _)
ItemsOf(cs, s) ==
    IF cs = <<>> THEN <<>>
    ELSE <<Item(Head(cs), s)>> \o ItemsOf(Tail(cs), s)

(* bot.py 495-513: the (schedule, user) pairs that reach the scheduling step. *)
RECURSIVE BotItems(_, _, _)
BotItems(scheds, u, current_time) ==
    IF scheds = <<>> THEN <<>>
    ELSE LET s == Head(scheds)
             class_end_time == Combine(DateOf(current_time), s.end_time)
             sel == IF PastClassEnd(current_time, class_end_time) THEN {}
                    ELSE BotUsers(u, s.group_type, current_time)
         IN ItemsOf(SetToSeq(sel), s) \o BotItems(Tail(scheds), u, current_time)

(* database.py 378-407: the entries appended to users_to_notify. *)
RECURSIVE DbItems(_, _, _)
DbItems(scheds, u, t) ==
    IF scheds = <<>> THEN <<>>
    ELSE LET s == Head(scheds)
             time_diff == TimeOf(t) - s.end_time
             sel == IF InGraceWindow(time_diff)
                    THEN get_users_in_group(u, s.group_type) ELSE {}
         IN ItemsOf(SetToSeq(sel), s) \o DbItems(Tail(scheds), u, t)

Range(q) == { q[i] : i \in DOMAIN q }
Chats(items) == { it.chat : it \in items }
Occurrences(q, c) == Cardinality({ i \in DOMAIN q : q[i].chat = c })

(* job_name = f"feedback_request_{user.chat_id}_{current_time.date()}" *)
job_name(chat, current_time) == <<chat, DateOf(current_time)>>

(* [job.id for job in scheduler.get_jobs()] *)
JobIds == { k \in Keys : jobs[k] > 0 }

(* Dispatches that exist for a (chat_id, date) pair. *)
BotDispatches(k) == jobs[k]
DbDispatches(k) == dispatched[k]
Dispatches(k) == IF impl = "bot" THEN BotDispatches(k) ELSE DbDispatches(k)

---------------------------------------------------------------------------
(* State *)

IdlePass ==
    [pc |-> "idle", now |-> 0, weekday |-> 0, todo |-> <<>>, eligible |-> {},
     added |-> {}, prior |-> {}, overlap |-> FALSE, seen |-> <<>>,
     fault |-> FALSE, result |-> "running"]

Conversations == {"END", "CHOOSING_GROUP", "ENTERING_START_DATE"}

IdleScript ==
    [pc |-> "idle", users |-> <<>>, todo |-> <<>>, tried |-> {}, failed |-> {},
     success_count |-> 0, failure_count |-> 0, result |-> "running",
     attempts |-> [c \in ChatIds |-> 0]]

(* What a feedback handler did in one call: save_feedback calls, send       *)
(* attempts to the manager or administrator, thank-you replies and register *)
(* prompts it tried to send, and the reply that reached the user.           *)
NoFeedback ==
    [saved |-> 0, attempts |-> 0, thanks |-> 0, prompts |-> 0, got |-> "none"]

(* No handler call has returned yet.  before, was and data are the users    *)
(* table, the chat's conversation state and its user_data before the call.  *)
IdleCall ==
    [op |-> "none", chat |-> 0, input |-> "none", fault |-> "none",
     returned |-> "None", before |-> <<>>, was |-> "END", data |-> "none",
     attempts |-> 0, did |-> NoFeedback]

(* No availability check runs. *)
IdleAvail ==
    [script |-> "none", pc |-> "idle", attempt |-> 0, responses |-> <<>>,
     requests |-> 0, waits |-> 0, waited |-> <<>>, result |-> "running"]

(* run_setup has not run.  configured: WEBHOOK_URL is set; database and api *)
(* the results of the two checks; info what check_webhook_status returned;  *)
(* was the URL Telegram held when the run started; called: set_webhook was  *)
(* called.                                                                  *)
IdleSetup ==
    [pc |-> "idle", configured |-> FALSE, database |-> "none", api |-> "none",
     info |-> "unasked", was |-> "none", called |-> FALSE, result |-> "running"]

(* database.py is not imported yet.  probes: the results of the             *)
(* check_database_connection calls so far.                                  *)
IdleHealth == [imported |-> FALSE, probes |-> <<>>]

(* No call of add_manager runs. *)
IdleAdd == [pc |-> "idle", chat |-> 0, existing |-> FALSE]

(* The process is down; the database holds one of the given schedules       *)
(* tables and one of the given users tables; a manager chat is configured   *)
(* or not as managers says.                                                 *)
InitOf(tables, registered, managers) ==
    /\ schedules \in tables
    /\ now = Min(AllInstants)
    /\ impl \in {"bot", "db"}
    /\ users \in registered
    /\ jobs = [k \in Keys |-> 0]
    /\ dispatched = [k \in Keys |-> 0]
    /\ pass = [p \in Slots |-> IdlePass]
    /\ up = FALSE
    /\ bootAt = NullDate
    /\ nextPoll = NullDate
    /\ initialDue = FALSE
    /\ skipped = FALSE
    /\ found = {}
    /\ restarts = 0
    /\ entry = "none"
    /\ invoked = FALSE
    /\ inits = 0
    /\ sent = [k \in Keys |-> 0]
    /\ conv = [c \in ChatIds |-> "END"]
    /\ rem = IdleScript
    /\ records = [c \in ChatIds |-> IF c \in DOMAIN users THEN 1 ELSE 0]
    /\ user_data = [c \in ChatIds |-> "none"]
    /\ creates = [c \in ChatIds |-> 0]
    /\ manager \in managers
    /\ adding = IdleAdd
    /\ last = IdleCall
    /\ avail = IdleAvail
    /\ setup = IdleSetup
    /\ hook = "none"
    /\ DB_READY = FALSE
    /\ health = IdleHealth

InitWith(tables, registered) == InitOf(tables, registered, {TRUE})

(* The database after init_schedule has filled the empty table. *)
Init == InitWith({SeedSchedules}, UserTables)

(* A pass that has returned is observed in position "done" before anything  *)
(* else happens.                                                            *)
Quiet == \A p \in Slots : pass[p].pc # "done"

---------------------------------------------------------------------------
(* The trigger jobs of setup_scheduler *)

(* IntervalTrigger(minutes=10): the run time after t. *)
NextPollAfter(t) ==
    LET S == { x \in AllInstants : x > t /\ (x - t) % PollInterval = 0 }
    IN IF S = {} THEN NullDate ELSE Min(S)

(* The job's pass starts and reads current_time (bot.py:489,                *)
(* database.py:353).  prior: the chats that have a dispatch for today;      *)
(* overlap: the other job's pass runs at the same time.                     *)
StartPass(p) ==
    [q \in Slots |->
        IF q = p
        THEN [IdlePass EXCEPT
                !.pc = "time",
                !.now = now,
                !.prior = { c \in ChatIds : Dispatches(<<c, DateOf(now)>>) > 0 },
                !.overlap = \E r \in Slots \ {p} : pass[r].pc # "idle"]
        ELSE [pass[q] EXCEPT !.overlap = @ \/ pass[q].pc # "idle"]]

CountersBelowCap == \A k \in Keys : dispatched[k] < MaxCount

(* 'initial_check': run_date = boot + 30 seconds, one run. *)
InitialCheck ==
    /\ up /\ Quiet /\ CountersBelowCap
    /\ initialDue
    /\ pass["initial_check"].pc = "idle"
    /\ initialDue' = FALSE
    /\ invoked' = TRUE
    /\ pass' = StartPass("initial_check")
    /\ UNCHANGED <<now, impl, users, schedules, jobs, dispatched,
                   up, bootAt, nextPoll, skipped, found, restarts,
                   entry, inits, sent, conv, rem>>
    /\ UNCHANGED regvars
    /\ UNCHANGED opsvars

(* 'check_schedule': a run every 10 minutes. *)
PeriodicCheck ==
    /\ up /\ Quiet /\ CountersBelowCap
    /\ nextPoll = now
    /\ pass["check_schedule"].pc = "idle"
    /\ nextPoll' = NextPollAfter(now)
    /\ invoked' = TRUE
    /\ pass' = StartPass("check_schedule")
    /\ UNCHANGED <<now, impl, users, schedules, jobs, dispatched,
                   up, bootAt, initialDue, skipped, found, restarts,
                   entry, inits, sent, conv, rem>>
    /\ UNCHANGED regvars
    /\ UNCHANGED opsvars

(* The interval job runs one instance at a time (max_instances = 1): a run  *)
(* that falls due while the previous pass is still running is skipped.      *)
PeriodicSkipped ==
    /\ up /\ Quiet
    /\ nextPoll = now
    /\ pass["check_schedule"].pc # "idle"
    /\ nextPoll' = NextPollAfter(now)
    /\ skipped' = TRUE
    /\ UNCHANGED <<now, impl, users, schedules, jobs, dispatched, pass,
                   up, bootAt, initialDue, found, restarts,
                   entry, invoked, inits, sent, conv, rem>>
    /\ UNCHANGED regvars
    /\ UNCHANGED opsvars

---------------------------------------------------------------------------
(* The scheduling pass *)

KeysOf(items, t) == { <<it.chat, DateOf(t)>> : it \in items }

(* bot.py 490-513: reads the weekday with a second clock read, queries the   *)
(* schedules of that weekday and the users of their groups.                 *)
BotQuery(p) ==
    /\ up /\ Quiet
    /\ impl = "bot"
    /\ pass[p].pc = "time"
    /\ LET weekday == get_weekday(now)
           items == BotItems(SchedulesFor(weekday), users, pass[p].now)
       IN /\ pass' = [pass EXCEPT ![p].pc = IF items = <<>> THEN "done" ELSE "loop",
                                  ![p].result = IF items = <<>> THEN "None" ELSE @,
                                  ![p].weekday = weekday,
                                  ![p].todo = items,
                                  ![p].eligible = Range(items),
                                  ![p].seen = users]
          /\ found' = found \cup KeysOf(Range(items), pass[p].now)
          /\ users' = Flush(users, PassWrites(users, Chats(Range(items))))
    /\ UNCHANGED <<now, impl, schedules, jobs, dispatched,
                   up, bootAt, nextPoll, initialDue, skipped, restarts,
                   entry, invoked, inits, sent, conv, rem>>
    /\ UNCHANGED regvars
    /\ UNCHANGED opsvars

(* bot.py: the pass ends with session.close() and returns None, or with the *)
(* exception of the query that failed.                                      *)
Outcome(p) == IF pass[p].fault THEN "raised" ELSE "None"

(* bot.py 516-519: is a job of this name in scheduler.get_jobs()? *)
BotCheck(p) ==
    /\ up /\ Quiet
    /\ impl = "bot"
    /\ pass[p].pc = "loop"
    /\ LET it == Head(pass[p].todo)
           rest == Tail(pass[p].todo)
       IN IF job_name(it.chat, pass[p].now) \in JobIds
          THEN pass' = [pass EXCEPT ![p].todo = rest,
                                    ![p].pc = IF rest = <<>> THEN "done" ELSE "loop",
                                    ![p].result = IF rest = <<>> THEN Outcome(p) ELSE @]
          ELSE pass' = [pass EXCEPT ![p].pc = "add"]
    /\ UNCHANGED <<now, impl, users, schedules, jobs, dispatched,
                   up, bootAt, nextPoll, initialDue, skipped, found, restarts,
                   entry, invoked, inits, sent, conv, rem>>
    /\ UNCHANGED regvars
    /\ UNCHANGED opsvars

(* bot.py 520-527: scheduler.add_job(..., 'date', run_date=class_end_time,   *)
(* id=job_name).  The scheduler is stopped, so the job joins the pending    *)
(* jobs whatever ids they have.                                             *)
BotAdd(p) ==
    /\ up /\ Quiet
    /\ impl = "bot"
    /\ pass[p].pc = "add"
    /\ LET it == Head(pass[p].todo)
           rest == Tail(pass[p].todo)
           id == job_name(it.chat, pass[p].now)
       IN /\ jobs' = [jobs EXCEPT ![id] = @ + 1]
          /\ dispatched' = [dispatched EXCEPT ![id] = @ + 1]
          /\ pass' = [pass EXCEPT ![p].todo = rest,
                                  ![p].added = @ \cup {it.chat},
                                  ![p].pc = IF rest = <<>> THEN "done" ELSE "loop",
                                  ![p].result = IF rest = <<>> THEN Outcome(p) ELSE @]
    /\ UNCHANGED <<now, impl, users, schedules,
                   up, bootAt, nextPoll, initialDue, skipped, found, restarts,
                   entry, invoked, inits, sent, conv, rem>>
    /\ UNCHANGED regvars
    /\ UNCHANGED opsvars

(* database.py 354-413: second clock read for the weekday, the schedules of  *)
(* that weekday, the grace window, the users of the group, users_to_notify. *)
DbQuery(p) ==
    /\ up /\ Quiet
    /\ impl = "db"
    /\ pass[p].pc = "time"
    /\ LET current_day == get_weekday(now)
           items == DbItems(SchedulesFor(current_day), users, pass[p].now)
           date == DateOf(pass[p].now)
       IN /\ pass' = [pass EXCEPT ![p].pc = "done",
                                  ![p].result = "True",
                                  ![p].weekday = current_day,
                                  ![p].eligible = Range(items),
                                  ![p].added = Chats(Range(items)),
                                  ![p].seen = users]
          /\ dispatched' = [k \in Keys |->
                            IF k[2] = date
                            THEN dispatched[k] + Occurrences(items, k[1])
                            ELSE dispatched[k]]
          /\ found' = found \cup KeysOf(Range(items), pass[p].now)
          /\ users' = Flush(users, PassWrites(users, Chats(Range(items))))
    /\ UNCHANGED <<now, impl, schedules, jobs,
                   up, bootAt, nextPoll, initialDue, skipped, restarts,
                   entry, invoked, inits, sent, conv, rem>>
    /\ UNCHANGED regvars
    /\ UNCHANGED opsvars

(* The pass has returned. *)
PassReturn(p) ==
    /\ pass[p].pc = "done"
    /\ pass' = [pass EXCEPT ![p] = IdlePass]
    /\ UNCHANGED <<now, impl, users, schedules, jobs, dispatched,
                   up, bootAt, nextPoll, initialDue, skipped, found, restarts,
                   entry, invoked, inits, sent, conv, rem>>
    /\ UNCHANGED regvars
    /\ UNCHANGED opsvars

---------------------------------------------------------------------------
(* The scheduler and the process *)

(* Time passes.  The trigger jobs that are due run first.  The two clock    *)
(* reads of a pass are consecutive statements: between them the clock moves *)
(* only over midnight.                                                      *)
Advance ==
    /\ Quiet
    /\ now < LastInstant
    /\ up => /\ ~initialDue
             /\ nextPoll # now
             /\ \A p \in Slots : pass[p].pc = "time" => TimeOf(now) = LastMinute
    /\ now' = NextInstant(now)
    /\ UNCHANGED <<impl, users, schedules, jobs, dispatched, pass,
                   up, bootAt, nextPoll, initialDue, skipped, found, restarts,
                   entry, invoked, inits, sent, conv, rem>>
    /\ UNCHANGED regvars
    /\ UNCHANGED opsvars

(* The process starts: the module-level scheduler (bot.py:55) is created    *)
(* empty, setup_scheduler calls init_schedule and registers the two trigger *)
(* jobs.                                                                    *)
Boot ==
    /\ ~up
    /\ up' = TRUE
    /\ entry' = "setup_scheduler"
    /\ schedules' = init_schedule(schedules)
    /\ inits' = inits + 1
    /\ bootAt' = now
    /\ initialDue' = TRUE
    /\ nextPoll' = NextPollAfter(now)
    /\ skipped' = FALSE
    /\ invoked' = FALSE
    /\ jobs' = [k \in Keys |-> 0]
    /\ pass' = [p \in Slots |-> IdlePass]
    /\ UNCHANGED <<now, impl, users, dispatched, found, restarts, sent, conv, rem>>
    /\ UNCHANGED regvars
    /\ UNCHANGED opsvars

(* The process stops: the pending jobs, the running passes, the             *)
(* conversations and their user_data are gone, the tables stay.  Time       *)
(* passes before the process is started again.                              *)
Crash ==
    /\ up /\ Quiet
    /\ restarts < MaxRestarts
    /\ now < LastInstant
    /\ up' = FALSE
    /\ bootAt' = NullDate
    /\ nextPoll' = NullDate
    /\ initialDue' = FALSE
    /\ jobs' = [k \in Keys |-> 0]
    /\ pass' = [p \in Slots |-> IdlePass]
    /\ now' = NextInstant(now)
    /\ restarts' = restarts + 1
    /\ skipped' = FALSE
    /\ entry' = "none"
    /\ invoked' = FALSE
    /\ conv' = [c \in ChatIds |-> "END"]
    /\ user_data' = [c \in ChatIds |-> "none"]
    /\ creates' = [c \in ChatIds |-> 0]
    /\ last' = IdleCall
    /\ UNCHANGED <<impl, users, schedules, dispatched, found, inits, sent, rem,
                   records, manager, adding>>
    /\ UNCHANGED opsvars

---------------------------------------------------------------------------
(* The pass when the database fails *)

(* bot.py: get_session, the schedules query or a users query raises.  n is  *)
(* the number of schedules whose users were read before; their jobs are     *)
(* added before the failing query is reached.  Nothing catches the          *)
(* exception.                                                               *)
BotQueryFails(p) ==
    /\ up /\ Quiet
    /\ impl = "bot"
    /\ pass[p].pc = "time"
    /\ LET weekday == get_weekday(now)
           scheds == SchedulesFor(weekday)
       IN \E n \in 0 .. Len(scheds) :
            /\ n < Len(scheds) \/ n = 0
            /\ LET items == BotItems(SubSeq(scheds, 1, n), users, pass[p].now)
               IN /\ pass' = [pass EXCEPT
                                ![p].pc = IF items = <<>> THEN "done" ELSE "loop",
                                ![p].fault = TRUE,
                                ![p].result = IF items = <<>> THEN "raised" ELSE @,
                                ![p].weekday = weekday,
                                ![p].todo = items,
                                ![p].eligible = Range(items),
                                ![p].seen = users]
                  /\ found' = found \cup KeysOf(Range(items), pass[p].now)
                  /\ users' = Flush(users, PassWrites(users, Chats(Range(items))))
    /\ UNCHANGED <<now, impl, schedules, jobs, dispatched,
                   up, bootAt, nextPoll, initialDue, skipped, restarts,
                   entry, invoked, inits, sent, conv, rem>>
    /\ UNCHANGED regvars
    /\ UNCHANGED opsvars

(* database.py: get_session raises and the pass returns False (lines        *)
(* 414-425); the schedules query fails, safe_execute_query returns None and *)
(* the pass returns True (lines 365-370); the users query of the n-th       *)
(* schedule fails, the schedule is skipped and the pass goes on (395-399).  *)
DbQueryFails(p) ==
    /\ up /\ Quiet
    /\ impl = "db"
    /\ pass[p].pc = "time"
    /\ LET current_day == get_weekday(now)
           scheds == SchedulesFor(current_day)
           date == DateOf(pass[p].now)
       IN \E failed \in {"session", "schedules", "users"} :
            \E n \in 0 .. Len(scheds) :
              /\ IF failed = "users"
                 THEN n > 0 /\ InGraceWindow(TimeOf(pass[p].now) - scheds[n].end_time)
                 ELSE n = 0
              /\ LET items == IF failed = "users"
                              THEN DbItems(RemoveAt(scheds, n), users, pass[p].now)
                              ELSE <<>>
                 IN /\ pass' = [pass EXCEPT
                                  ![p].pc = "done",
                                  ![p].fault = TRUE,
                                  ![p].result = IF failed = "session" THEN "False"
                                                ELSE "True",
                                  ![p].weekday = current_day,
                                  ![p].eligible = Range(items),
                                  ![p].added = Chats(Range(items)),
                                  ![p].seen = users]
                    /\ dispatched' = [k \in Keys |->
                                      IF k[2] = date
                                      THEN dispatched[k] + Occurrences(items, k[1])
                                      ELSE dispatched[k]]
                    /\ found' = found \cup KeysOf(Range(items), pass[p].now)
                    /\ users' = Flush(users, PassWrites(users, Chats(Range(items))))
    /\ UNCHANGED <<now, impl, schedules, jobs,
                   up, bootAt, nextPoll, initialDue, skipped, restarts,
                   entry, invoked, inits, sent, conv, rem>>
    /\ UNCHANGED regvars
    /\ UNCHANGED opsvars

---------------------------------------------------------------------------
(* Other ways the process starts *)

(* The process without trigger jobs. *)
StartBare(how) ==
    /\ ~up
    /\ up' = TRUE
    /\ entry' = how
    /\ bootAt' = now
    /\ initialDue' = FALSE
    /\ nextPoll' = NullDate
    /\ skipped' = FALSE
    /\ invoked' = FALSE
    /\ jobs' = [k \in Keys |-> 0]
    /\ pass' = [p \in Slots |-> IdlePass]
    /\ UNCHANGED <<now, impl, users, schedules, dispatched, found, restarts,
                   inits, sent, conv, rem>>
    /\ UNCHANGED regvars
    /\ UNCHANGED opsvars

(* setup_scheduler when init_schedule returns False (the database does not  *)
(* answer, or the commit of the default rows fails and is rolled back): it  *)
(* returns a scheduler without jobs.                                        *)
BootStoreDown == StartBare("setup_scheduler")

(* main (bot.py 1142-1197): creates the tables, registers the handlers and  *)
(* runs the application.  It calls neither setup_scheduler nor              *)
(* scheduler.start().                                                       *)
Main == StartBare("main")

---------------------------------------------------------------------------
(* The registration conversation of bot.py *)

(* The handlers are registered by setup_application, which main calls.  The *)
(* ConversationHandler is taken to pass the entry command to start.         *)
Serving == up /\ entry = "main"

NewUser == [group_type |-> "NULL", start_date |-> NullDate, is_active |-> TRUE]

(* A table that accepts every INSERT. *)
NoConstraint(recs, c) == TRUE

(* chat_id = Column(Integer, unique=True): the INSERT of a chat_id the      *)
(* table holds fails, and the session is rolled back.                       *)
UniqueChatId(recs, c) == recs[c] = 0

(* The table with the row removed. *)
Unregister(u, c) == [k \in DOMAIN u \ {c} |-> u[k]]

(* An entry command that starts the registration of a known chat afresh. *)
Reenrol(u, c) == [u EXCEPT ![c] = NewUser]

(* "UPDATE users SET is_active = :is_active WHERE chat_id = :chat_id". *)
Reactivate(u, c) == [u EXCEPT ![c].is_active = TRUE]

(* session.add(User(chat_id = c, ...)); session.commit(): users is read by  *)
(* chat_id and gives the first row of the chat.                             *)
Inserted(u, c, row) ==
    [k \in DOMAIN u \cup {c} |-> IF k \in DOMAIN u THEN u[k] ELSE row]

(* What the user typed for a date: its form and the day it names, NullDate  *)
(* when no such day exists (31.02.2023).                                    *)
DateForms == {"DD.MM.YYYY", "D.M.YYYY", "YYYY-MM-DD", "words"}

DateTexts ==
    { t \in [form : DateForms, day : {FirstDate, NullDate}] :
        t.form = "words" => t.day = NullDate }

(* A parser that takes every dotted text for the first day. *)
parse_lenient(text) ==
    IF text.form \in {"DD.MM.YYYY", "D.M.YYYY"}
    THEN Combine(FirstDate, 0) ELSE NullDate

(* utils.parse_date: three parts around '.', each an integer, that make a   *)
(* day; anything else gives None.                                           *)
parse_date(text) ==
    IF text.form \in {"DD.MM.YYYY", "D.M.YYYY"} /\ text.day # NullDate
    THEN Combine(text.day, 0) ELSE NullDate

(* The handler call that returns now. *)
Call(op, c, input, fault, returned) ==
    [op |-> op, chat |-> c, input |-> input, fault |-> fault,
     returned |-> returned, before |-> users, was |-> conv[c],
     data |-> user_data[c], attempts |-> 0, did |-> NoFeedback]

(* A handler that raised leaves the conversation where it was. *)
Returned(fault, state) == IF fault = "none" THEN state ELSE "raised"
Moved(c, fault, state) ==
    [conv EXCEPT ![c] = IF fault = "none" THEN state ELSE @]

(* start, the entry point /register, with a database that answers: a known  *)
(* chat is made active if it was not, and the conversation ends; an unknown *)
(* chat (no row, and line 176 does not take that for a failed query) gets a *)
(* row and is asked for its group.                                          *)
start(c) ==
    /\ Serving
    /\ conv[c] = "END"
    /\ IF c \in DOMAIN users
       THEN /\ users' = IF users[c].is_active THEN users ELSE Reactivate(users, c)
            /\ last' = Call("start", c, "none", "none", "END")
            /\ UNCHANGED <<conv, records>>
       ELSE IF UniqueChatId(records, c)
       THEN /\ users' = Inserted(users, c, NewUser)
            /\ records' = [records EXCEPT ![c] = @ + 1]
            /\ conv' = [conv EXCEPT ![c] = "CHOOSING_GROUP"]
            /\ last' = Call("start", c, "none", "none", "CHOOSING_GROUP")
       ELSE /\ last' = Call("start", c, "none", "insert", "END")
            /\ UNCHANGED <<users, conv, records>>
    /\ UNCHANGED <<now, impl, schedules, jobs, dispatched, pass,
                   up, bootAt, nextPoll, initialDue, skipped, found, restarts,
                   entry, invoked, inits, sent, rem,
                   user_data, creates, manager, adding>>
    /\ UNCHANGED opsvars

(* Where start can fail: check_database_connection returns False (lines     *)
(* 91-97), get_session raises (100-109), the check query fails or gives no  *)
(* row while session.is_active (176-183), the UPDATE of an inactive user    *)
(* fails (237-242), the INSERT fails (287-296), the message with the group  *)
(* buttons cannot be sent after the INSERT (338-346).                       *)
StartFaults == {"connection", "session", "query", "update", "insert", "reply"}

(* A start that writes the row whatever went wrong before. *)
WritesRegardless(fault) == fault \in {"connection", "session", "reply"}

(* The failures that come after the INSERT was committed (line 275): only   *)
(* the message with the buttons; all others return before it.               *)
AfterInsert(fault) == fault = "reply"

(* start when one of these happens: every branch returns END. *)
startFails(c) ==
    /\ Serving
    /\ conv[c] = "END"
    /\ \E fault \in StartFaults :
         /\ fault = "update" => c \in DOMAIN users /\ ~users[c].is_active
         /\ fault \in {"insert", "reply"} => c \notin DOMAIN users
         /\ IF AfterInsert(fault) /\ c \notin DOMAIN users
               /\ UniqueChatId(records, c)
            THEN /\ users' = Inserted(users, c, NewUser)
                 /\ records' = [records EXCEPT ![c] = @ + 1]
            ELSE UNCHANGED <<users, records>>
         /\ last' = Call("start", c, "none", fault, "END")
    /\ UNCHANGED <<now, impl, schedules, jobs, dispatched, pass,
                   up, bootAt, nextPoll, initialDue, skipped, found, restarts,
                   entry, invoked, inits, sent, conv, rem,
                   user_data, creates, manager, adding>>
    /\ UNCHANGED opsvars

(* An exception before the handler's write (query.answer, get_session), or  *)
(* in its closing reply.                                                    *)
HandlerFaults == {"early", "reply"}

(* group_choice, on a button of the group keyboard: stores the group in     *)
(* user_data and in the row, and asks for the start date.                   *)
GroupChoice(c, faults) ==
    /\ Serving
    /\ conv[c] = "CHOOSING_GROUP"
    /\ \E group_type \in Groups, fault \in faults :
         /\ user_data' = IF fault = "early" THEN user_data
                         ELSE [user_data EXCEPT ![c] = group_type]
         /\ users' = IF c \in DOMAIN users /\ fault # "early"
                     THEN [users EXCEPT ![c].group_type = group_type]
                     ELSE users
         /\ conv' = Moved(c, fault, "ENTERING_START_DATE")
         /\ last' = Call("group_choice", c, group_type, fault,
                         Returned(fault, "ENTERING_START_DATE"))
    /\ UNCHANGED <<now, impl, schedules, jobs, dispatched, pass,
                   up, bootAt, nextPoll, initialDue, skipped, found, restarts,
                   entry, invoked, inits, sent, rem,
                   records, creates, manager, adding>>
    /\ UNCHANGED opsvars

group_choice(c) == GroupChoice(c, {"none"})
group_choiceFails(c) == GroupChoice(c, HandlerFaults)

(* start_date_entered, on a text: a text parse_date does not accept is      *)
(* answered with the format and the state stays; a date is stored in the    *)
(* row and the conversation ends.                                           *)
StartDateEntered(c, faults) ==
    /\ Serving
    /\ conv[c] = "ENTERING_START_DATE"
    /\ \E text \in DateTexts, fault \in faults :
         LET start_date == parse_date(text)
         IN IF start_date = NullDate
            THEN /\ fault # "early"
                 /\ last' = Call("start_date_entered", c, text, fault,
                                 Returned(fault, "ENTERING_START_DATE"))
                 /\ UNCHANGED <<users, conv>>
            ELSE /\ users' = IF c \in DOMAIN users /\ fault # "early"
                             THEN [users EXCEPT ![c].start_date = start_date]
                             ELSE users
                 /\ conv' = Moved(c, fault, "END")
                 /\ last' = Call("start_date_entered", c, text, fault,
                                 Returned(fault, "END"))
    /\ UNCHANGED <<now, impl, schedules, jobs, dispatched, pass,
                   up, bootAt, nextPoll, initialDue, skipped, found, restarts,
                   entry, invoked, inits, sent, rem,
                   records, user_data, creates, manager, adding>>
    /\ UNCHANGED opsvars

start_date_entered(c) == StartDateEntered(c, {"none"})
start_date_enteredFails(c) == StartDateEntered(c, HandlerFaults)

(* cancel, the fallback /cancel. *)
Cancel(c, faults) ==
    /\ Serving
    /\ conv[c] # "END"
    /\ \E fault \in faults :
         /\ conv' = Moved(c, fault, "END")
         /\ last' = Call("cancel", c, "none", fault, Returned(fault, "END"))
    /\ UNCHANGED <<now, impl, users, schedules, jobs, dispatched, pass,
                   up, bootAt, nextPoll, initialDue, skipped, found, restarts,
                   entry, invoked, inits, sent, rem,
                   records, user_data, creates, manager, adding>>
    /\ UNCHANGED opsvars

cancel(c) == Cancel(c, {"none"})
cancelFails(c) == Cancel(c, {"reply"})

---------------------------------------------------------------------------
(* Sending: the send operations and scripts/send_feedback_reminders.py *)

(* What bot.send_message does: it returns or it raises. *)
Transport == {"delivered", "error"}

(* A send operation without a try block: the exception leaves it. *)
send_unguarded(outcome) == IF outcome = "error" THEN "raised" ELSE "True"

(* handlers/feedback.py send_feedback_request: True, or False when          *)
(* send_message raised.                                                     *)
send_feedback_request(outcome) == IF outcome = "error" THEN "False" ELSE "True"

(* bot.py send_feedback_request_to_user: the exception is logged inside. *)
send_feedback_request_to_user(outcome) == "None"

(* database.get_active_users_by_day, which the script imports: the active   *)
(* users of the groups that have a class on the weekday.                    *)
get_active_users_by_day(u, weekday) ==
    { c \in DOMAIN u :
        /\ u[c].is_active
        /\ \E i \in DOMAIN schedules :
              /\ schedules[i].day_of_week = weekday
              /\ schedules[i].group_type = u[c].group_type }

SendsBelowCap == \A k \in Keys : sent[k] < MaxCount

(* A loop that stays on the user whose send failed. *)
RetryFailed(todo, returned) == IF returned = "False" THEN todo ELSE Tail(todo)

(* "for user in users" (line 65): the next turn takes the next user,        *)
(* whatever send_feedback_request returned.                                 *)
NextTodo(todo, returned) == Tail(todo)

(* send_reminders up to the loop: the users of the current weekday. *)
ScriptStart ==
    /\ rem.pc = "idle"
    /\ SendsBelowCap
    /\ LET current_day == get_weekday(now)
           list == SetToSeq(get_active_users_by_day(users, current_day))
       IN rem' = IF list = <<>>
                 THEN [IdleScript EXCEPT !.pc = "done", !.result = "True"]
                 ELSE [IdleScript EXCEPT !.pc = "loop", !.users = list, !.todo = list]
    /\ UNCHANGED <<now, impl, users, schedules, jobs, dispatched, pass,
                   up, bootAt, nextPoll, initialDue, skipped, found, restarts,
                   entry, invoked, inits, sent, conv>>
    /\ UNCHANGED regvars
    /\ UNCHANGED opsvars

(* One turn of the loop: send_feedback_request to the next user, counted as *)
(* a success or a failure.  An exception that left send_feedback_request    *)
(* would leave send_reminders and asyncio.run.                              *)
ScriptSend ==
    /\ rem.pc = "loop"
    /\ \E outcome \in Transport :
         LET chat == Head(rem.todo)
             returned == send_feedback_request(outcome)
             rest == NextTodo(rem.todo, returned)
         IN /\ sent' = [sent EXCEPT ![<<chat, DateOf(now)>>] = @ + 1]
            /\ rem' = [rem EXCEPT
                         !.tried = @ \cup {chat},
                         !.attempts = [@ EXCEPT ![chat] = @ + 1],
                         !.failed = IF outcome = "error" THEN @ \cup {chat} ELSE @,
                         !.todo = IF returned = "raised" THEN @ ELSE rest,
                         !.success_count = IF returned = "True" THEN @ + 1 ELSE @,
                         !.failure_count = IF returned = "False" THEN @ + 1 ELSE @,
                         !.pc = IF returned = "raised" \/ rest = <<>>
                                THEN "done" ELSE "loop",
                         !.result = IF returned = "raised" THEN "raised"
                                    ELSE IF rest = <<>> THEN "True" ELSE @]
    /\ UNCHANGED <<now, impl, users, schedules, jobs, dispatched, pass,
                   up, bootAt, nextPoll, initialDue, skipped, found, restarts,
                   entry, invoked, inits, conv>>
    /\ UNCHANGED regvars
    /\ UNCHANGED opsvars

(* The script's process ends; the script can be run again. *)
ScriptExit ==
    /\ rem.pc = "done"
    /\ rem' = IdleScript
    /\ UNCHANGED <<now, impl, users, schedules, jobs, dispatched, pass,
                   up, bootAt, nextPoll, initialDue, skipped, found, restarts,
                   entry, invoked, inits, sent, conv>>
    /\ UNCHANGED regvars
    /\ UNCHANGED opsvars

---------------------------------------------------------------------------
(* add_manager and the feedback handler of bot.py *)

(* add_manager (database.py 226-269): looks the chat up; the row it finds   *)
(* is made active, a chat it did not find is inserted.  Nothing in src/     *)
(* calls it, so the call is taken to run beside the handlers: the look-up   *)
(* and the commit are two steps.                                            *)
add_manager(c) ==
    /\ adding.pc = "idle"
    /\ adding' = [pc |-> "commit", chat |-> c, existing |-> c \in DOMAIN users]
    /\ UNCHANGED <<now, impl, users, schedules, jobs, dispatched, pass,
                   up, bootAt, nextPoll, initialDue, skipped, found, restarts,
                   entry, invoked, inits, sent, conv, rem,
                   records, user_data, creates, manager, last>>
    /\ UNCHANGED opsvars

(* The commit of add_manager: True, or False when the commit raised. *)
add_manager_commit ==
    /\ adding.pc = "commit"
    /\ LET c == adding.chat
       IN IF adding.existing
          THEN /\ users' = Reactivate(users, c)
               /\ last' = Call("add_manager", c, "update", "none", "True")
               /\ UNCHANGED records
          ELSE IF UniqueChatId(records, c)
          THEN /\ users' = Inserted(users, c, NewUser)
               /\ records' = [records EXCEPT ![c] = @ + 1]
               /\ last' = Call("add_manager", c, "insert", "none", "True")
          ELSE /\ last' = Call("add_manager", c, "insert", "insert", "False")
               /\ UNCHANGED <<users, records>>
    /\ adding' = IdleAdd
    /\ UNCHANGED <<now, impl, schedules, jobs, dispatched, pass,
                   up, bootAt, nextPoll, initialDue, skipped, found, restarts,
                   entry, invoked, inits, sent, conv, rem,
                   user_data, creates, manager>>
    /\ UNCHANGED opsvars

(* feedback_message (bot.py 435-472), the handler of the texts the          *)
(* conversation does not take: thanks the user, then sends the text to      *)
(* MANAGER_CHAT_ID if it is set.  An exception of the first reply skips the *)
(* rest of the try block; one of the send to the manager is logged.         *)
feedback_message(c) ==
    /\ Serving
    /\ conv[c] # "ENTERING_START_DATE"
    /\ \E reply \in Transport, relay \in Transport :
         LET fault == IF reply = "error" THEN "reply"
                      ELSE IF manager /\ relay = "error" THEN "relay" ELSE "none"
             relays == IF reply = "delivered" /\ manager THEN 1 ELSE 0
         IN last' = [Call("feedback_message", c, "text", fault, "None") EXCEPT
                       !.attempts = relays,
                       !.did = [saved |-> 0, attempts |-> relays, thanks |-> 1,
                                prompts |-> 0,
                                got |-> IF reply = "delivered" THEN "thanks"
                                        ELSE "none"]]
    /\ UNCHANGED <<now, impl, users, schedules, jobs, dispatched, pass,
                   up, bootAt, nextPoll, initialDue, skipped, found, restarts,
                   entry, invoked, inits, sent, conv, rem,
                   records, user_data, creates, manager, adding>>
    /\ UNCHANGED opsvars

---------------------------------------------------------------------------
(* The service-availability checks: set_webhook.py                          *)
(* check_service_availability, check_bot.py check_render_service and        *)
(* webhook_diagnose.py check_render_service                                 *)

Scripts == {"set_webhook", "check_bot", "webhook_diagnose"}

(* max_attempts, and range(1, 4) in webhook_diagnose.py. *)
max_attempts == 3

(* What requests.get(ping_url, timeout=30) gives: status 200 with a JSON    *)
(* body, status 200 with another body, a status of 400 or more, or a        *)
(* RequestException.                                                        *)
Responses == {"ok_json", "ok_text", "error", "exception"}

(* The service answered the request with success. *)
Successful(r) == r \in {"ok_json", "ok_text"}

(* The responses on which the check returns True: status 200                *)
(* (set_webhook.py:82), status 200 and a body response.json() parses        *)
(* (check_bot.py 179-190, the bare except goes on to the wait), a status    *)
(* below 400 (webhook_diagnose.py:202).                                     *)
Accepts(script, r) ==
    IF script = "check_bot" THEN r = "ok_json" ELSE Successful(r)

(* The check starts.  webhook_diagnose.py returns at once when WEBHOOK_URL  *)
(* is not set (False) or is no onrender.com address (True).                 *)
AvailStart ==
    /\ avail.pc = "idle"
    /\ \E script \in Scripts, url \in {"unset", "foreign", "render"} :
         /\ script # "webhook_diagnose" => url = "render"
         /\ avail' = IF url = "render"
                      THEN [IdleAvail EXCEPT !.script = script, !.pc = "request",
                                             !.attempt = 1]
                      ELSE [IdleAvail EXCEPT !.script = script, !.pc = "done",
                                             !.result = IF url = "foreign"
                                                        THEN "True" ELSE "False"]
    /\ UNCHANGED <<botvars, setup, hook, DB_READY, health>>

(* One turn of the loop up to the sleep: the request and what follows from  *)
(* its response.  "if attempt < max_attempts": no sleep after the last      *)
(* attempt.                                                                 *)
AvailRequest ==
    /\ avail.pc = "request"
    /\ \E r \in Responses :
         LET accepted == Accepts(avail.script, r)
             more == avail.attempt < max_attempts
             sleeps == ~accepted /\ more
         IN avail' = [avail EXCEPT
                        !.requests = @ + 1,
                        !.responses = Append(@, r),
                        !.pc = IF accepted THEN "done"
                               ELSE IF sleeps THEN "sleep"
                               ELSE "exhausted",
                        !.result = IF accepted THEN "True" ELSE @]
    /\ UNCHANGED <<botvars, setup, hook, DB_READY, health>>

(* time.sleep(wait_time), then the next turn. *)
AvailSleep ==
    /\ avail.pc = "sleep"
    /\ avail' = [avail EXCEPT
                   !.waits = @ + 1,
                   !.waited = Append(@, avail.attempt),
                   !.pc = IF avail.attempt < max_attempts THEN "request"
                          ELSE "exhausted",
                   !.attempt = IF avail.attempt < max_attempts THEN @ + 1 ELSE @]
    /\ UNCHANGED <<botvars, setup, hook, DB_READY, health>>

(* After the loop: check_bot.py and webhook_diagnose.py return False;       *)
(* set_webhook.py asks the operator whether to go on and returns the        *)
(* answer.                                                                  *)
AvailGiveUp ==
    /\ avail.pc = "exhausted"
    /\ \E proceed \in {"y", "n"} :
         avail' = [avail EXCEPT
                     !.pc = "done",
                     !.result = IF avail.script = "set_webhook" /\ proceed = "y"
                                THEN "True" ELSE "False"]
    /\ UNCHANGED <<botvars, setup, hook, DB_READY, health>>

---------------------------------------------------------------------------
(* database.py: the flag DB_READY *)

(* An assignment that reaches the name of the module, as under "global". *)
AssignsGlobal(flag, value) == value

(* "DB_READY = True" and "DB_READY = False" inside check_database_connection *)
(* (lines 166, 170, 177): the function has no "global DB_READY", so each     *)
(* binds a name of its own and the flag of the module keeps its value.       *)
AssignsLocal(flag, value) == flag

(* The import of database.py (lines 47 and 211-223): DB_READY is False, then *)
(* what create_tables returned, or False after an exception.                 *)
ImportDatabase ==
    /\ ~health.imported
    /\ \E outcome \in {"created", "failed", "exception"} :
          DB_READY' = (outcome = "created")
    /\ health' = [health EXCEPT !.imported = TRUE]
    /\ UNCHANGED <<botvars, avail, setup, hook>>

(* check_database_connection (lines 150-178) returns True when "SELECT 1"   *)
(* gave 1, and False when it gave another value or raised.                  *)
check_database_connection ==
    /\ health.imported
    /\ Len(health.probes) < MaxCount
    /\ \E probe \in {"one", "other", "exception"} :
          /\ DB_READY' = AssignsLocal(DB_READY, probe = "one")
          /\ health' = [health EXCEPT !.probes = Append(@, probe = "one")]
    /\ UNCHANGED <<botvars, avail, setup, hook>>

-----------------------------------------------------------------------------
(* setup_render.py run_setup *)

(* The URL Telegram holds for the bot: none, the configured WEBHOOK_URL,    *)
(* the one made from RENDER_EXTERNAL_URL, or another.                       *)
Hooks == {"none", "configured", "render", "other"}

(* A run_setup that sets the webhook in every run. *)
SetsAlways(info, configured) == TRUE

(* "not webhook_info or not webhook_info.get('url') or (WEBHOOK_URL and     *)
(* webhook_info.get('url') != WEBHOOK_URL)" (line 343).  info is "failed"   *)
(* when check_webhook_status returned None, else the URL it reported.       *)
NeedsWebhook(info, configured) ==
    \/ info = "failed"
    \/ info = "none"
    \/ configured /\ info # "configured"

(* One run of run_setup, steps 1 to 5: the database check, the tables, the  *)
(* Telegram API check, the webhook status, set_webhook.  set_webhook takes  *)
(* WEBHOOK_URL or else the Render URL, returns False without a request when *)
(* it has neither, and True when setWebhook answered ok.  A failure to     *)
(* create the tables only warns, steps 6 and 7 only read and log.           *)
(* WEBHOOK_URL is the same in every run.                                    *)
run_setup ==
    /\ \E configured \in (IF setup.pc = "idle" THEN BOOLEAN ELSE {setup.configured}),
          render \in BOOLEAN, database \in BOOLEAN,
          api \in BOOLEAN, status \in Transport, answer \in Transport :
           LET info == IF status = "error" THEN "failed" ELSE hook
               run == [IdleSetup EXCEPT !.pc = "done", !.configured = configured,
                                        !.was = hook,
                                        !.database = IF database THEN "True" ELSE "False"]
               target == IF configured THEN "configured"
                         ELSE IF render THEN "render" ELSE "none"
               set == target # "none" /\ answer = "delivered"
           IN IF ~database
              THEN /\ setup' = [run EXCEPT !.result = "False"]
                   /\ hook' = hook
              ELSE IF ~api
              THEN /\ setup' = [run EXCEPT !.api = "False", !.result = "False"]
                   /\ hook' = hook
              ELSE IF NeedsWebhook(info, configured)
              THEN /\ setup' = [run EXCEPT !.api = "True", !.info = info,
                                           !.called = TRUE,
                                           !.result = IF set THEN "True" ELSE "False"]
                   /\ hook' = IF set THEN target ELSE hook
              ELSE /\ setup' = [run EXCEPT !.api = "True", !.info = info,
                                           !.result = "True"]
                   /\ hook' = hook
    /\ UNCHANGED <<botvars, avail, DB_READY, health>>

(* Another tool (set_webhook.py, webhook_diagnose.py, check_bot.py) sets or *)
(* removes the webhook.                                                     *)
WebhookChanged ==
    /\ \E url \in Hooks \ {hook} : hook' = url
    /\ UNCHANGED <<botvars, avail, setup, DB_READY, health>>

---------------------------------------------------------------------------
(* The handlers package: handlers/start.py and handlers/feedback.py *)

(* An application that registers start_command_handler and                  *)
(* feedback_handler.                                                        *)
HandlersApp == StartBare("handlers")

HandlersServing == up /\ entry = "handlers"

(* Config.GROUPS (descriptions in Latin letters), and the texts of the      *)
(* group keyboard: f"{description} ({group})".                              *)
GROUPS == [g \in Groups |-> IF g = "weekday" THEN "Budni (pn-pt)" ELSE "Vyhodnye (sb)"]
Label(g) == <<GROUPS[g], g>>

(* What the user typed for a group. *)
GroupTexts ==
    { Label(g) : g \in Groups } \cup { <<"", g>> : g \in Groups }
    \cup { <<"Privet", "">> }

(* handlers/start.py group_choice, lines 69-73: the group whose label is    *)
(* the text, or none.                                                       *)
group_info(text) ==
    IF \E g \in Groups : Label(g) = text
    THEN CHOOSE g \in Groups : Label(g) = text
    ELSE "none"

(* utils.helpers.parse_date: DD.MM.YYYY or YYYY-MM-DD with two-digit day    *)
(* and month, that make a day; anything else gives None.                    *)
helpers_parse_date(text) ==
    IF text.form \in {"DD.MM.YYYY", "YYYY-MM-DD"} /\ text.day # NullDate
    THEN Combine(text.day, 0) ELSE NullDate

(* database.check_user_exists, which the handlers import: is there a row of *)
(* the user?                                                                *)
check_user_exists(u, c) == c \in DOMAIN u

(* The row database.create_new_user, which handlers/start.py imports, is    *)
(* asked to store.                                                          *)
create_new_user(group, start_date) ==
    [group_type |-> group, start_date |-> start_date, is_active |-> TRUE]

(* start_command, the entry point /start: a registered user is told so, any *)
(* other is shown the group keyboard.                                       *)
start_command(c) ==
    /\ HandlersServing
    /\ conv[c] = "END"
    /\ \E fault \in {"none", "reply"} :
         LET state == IF check_user_exists(users, c) THEN "END"
                      ELSE "CHOOSING_GROUP"
         IN /\ conv' = Moved(c, fault, state)
            /\ last' = Call("start_command", c, "none", fault,
                            Returned(fault, state))
            /\ creates' = IF conv'[c] = "END" THEN creates
                          ELSE [creates EXCEPT ![c] = 0]
    /\ UNCHANGED <<now, impl, users, schedules, jobs, dispatched, pass,
                   up, bootAt, nextPoll, initialDue, skipped, found, restarts,
                   entry, invoked, inits, sent, rem,
                   records, user_data, manager, adding>>
    /\ UNCHANGED opsvars

(* handlers/start.py group_choice, on a text: a text that is no label is    *)
(* answered and the state stays; a label is kept in user_data.              *)
choose_group(c) ==
    /\ HandlersServing
    /\ conv[c] = "CHOOSING_GROUP"
    /\ \E text \in GroupTexts, fault \in {"none", "reply"} :
         LET group == group_info(text)
             state == IF group = "none" THEN "CHOOSING_GROUP"
                      ELSE "ENTERING_START_DATE"
         IN /\ user_data' = IF group = "none" THEN user_data
                            ELSE [user_data EXCEPT ![c] = group]
            /\ conv' = Moved(c, fault, state)
            /\ last' = Call("choose_group", c, text, fault,
                            Returned(fault, state))
    /\ UNCHANGED <<now, impl, users, schedules, jobs, dispatched, pass,
                   up, bootAt, nextPoll, initialDue, skipped, found, restarts,
                   entry, invoked, inits, sent, rem,
                   records, creates, manager, adding>>
    /\ UNCHANGED opsvars

CreatesBelowCap == \A c \in ChatIds : creates[c] < MaxCount

(* handlers/start.py start_date_entered, on a text: a text parse_date does  *)
(* not accept is answered and the state stays; with a date it calls         *)
(* create_new_user, answers and ends the conversation.  created: the        *)
(* INSERT went through.                                                     *)
enter_start_date(c) ==
    /\ HandlersServing
    /\ conv[c] = "ENTERING_START_DATE"
    /\ CreatesBelowCap
    /\ \E text \in DateTexts, fault \in {"none", "reply"} :
         LET start_date == helpers_parse_date(text)
             created == UniqueChatId(records, c)
         IN IF start_date = NullDate
            THEN /\ conv' = conv
                 /\ last' = Call("enter_start_date", c, text, fault,
                                 Returned(fault, "ENTERING_START_DATE"))
                 /\ UNCHANGED <<users, records, creates>>
            ELSE /\ creates' = [creates EXCEPT ![c] = @ + 1]
                 /\ users' = IF created
                             THEN Inserted(users, c,
                                     create_new_user(user_data[c], start_date))
                             ELSE users
                 /\ records' = IF created THEN [records EXCEPT ![c] = @ + 1]
                               ELSE records
                 /\ conv' = Moved(c, fault, "END")
                 /\ last' = Call("enter_start_date", c, text, fault,
                                 Returned(fault, "END"))
    /\ UNCHANGED <<now, impl, schedules, jobs, dispatched, pass,
                   up, bootAt, nextPoll, initialDue, skipped, found, restarts,
                   entry, invoked, inits, sent, rem,
                   user_data, manager, adding>>
    /\ UNCHANGED opsvars

(* handlers/start.py cancel, the fallback /cancel. *)
cancel_registration(c) ==
    /\ HandlersServing
    /\ conv[c] # "END"
    /\ \E fault \in {"none", "reply"} :
         /\ conv' = Moved(c, fault, "END")
         /\ last' = Call("cancel_registration", c, "none", fault,
                         Returned(fault, "END"))
    /\ UNCHANGED <<now, impl, users, schedules, jobs, dispatched, pass,
                   up, bootAt, nextPoll, initialDue, skipped, found, restarts,
                   entry, invoked, inits, sent, rem,
                   records, user_data, creates, manager, adding>>
    /\ UNCHANGED opsvars

(* A process_feedback without the return of line 32. *)
StepsUnchecked(known, admin, relay) ==
    [saved |-> 1, attempts |-> IF admin THEN 1 ELSE 0, thanks |-> 1,
     prompts |-> IF known THEN 0 ELSE 1, got |-> "none"]

(* A process_feedback without the try block of lines 50-57. *)
StepsUnguarded(known, admin, relay) ==
    [saved |-> IF known THEN 1 ELSE 0,
     attempts |-> IF known /\ admin THEN 1 ELSE 0,
     thanks |-> IF known /\ ~(admin /\ relay = "error") THEN 1 ELSE 0,
     prompts |-> IF known THEN 0 ELSE 1, got |-> "none"]

(* The calls process_feedback makes: for an unknown user the register       *)
(* prompt and nothing else (lines 27-32); for a known one save_feedback,    *)
(* one send to the administrator if Config.ADMIN_CHAT_ID is set, and the    *)
(* thank-you reply, whatever save_feedback returned and whether or not the  *)
(* send raised (lines 35-64).                                               *)
FeedbackSteps(known, admin, relay) ==
    [saved |-> IF known THEN 1 ELSE 0,
     attempts |-> IF known /\ admin THEN 1 ELSE 0,
     thanks |-> IF known THEN 1 ELSE 0,
     prompts |-> IF known THEN 0 ELSE 1, got |-> "none"]

(* process_feedback (handlers/feedback.py 16-64), on a text outside the     *)
(* conversation: a user without a row is sent to /start; otherwise the text *)
(* is saved and sent to Config.ADMIN_CHAT_ID if it is set, an exception of  *)
(* that send is logged, and the user is thanked.                            *)
process_feedback(c) ==
    /\ HandlersServing
    /\ conv[c] = "END"
    /\ \E reply \in Transport, relay \in Transport, stored \in BOOLEAN :
         LET known == check_user_exists(users, c)
             fault == IF reply = "error" THEN "reply"
                      ELSE IF known /\ manager /\ relay = "error" THEN "relay"
                      ELSE IF known /\ ~stored THEN "save"
                      ELSE "none"
             did == FeedbackSteps(known, manager, relay)
         IN last' = [Call("process_feedback", c, "text", fault,
                          IF reply = "error" THEN "raised" ELSE "None") EXCEPT
                       !.attempts = did.attempts,
                       !.did = [did EXCEPT
                                  !.got = IF reply = "error" THEN "none"
                                          ELSE IF did.thanks = 1 THEN "thanks"
                                          ELSE IF did.prompts = 1 THEN "register"
                                          ELSE "none"]]
    /\ UNCHANGED <<now, impl, users, schedules, jobs, dispatched, pass,
                   up, bootAt, nextPoll, initialDue, skipped, found, restarts,
                   entry, invoked, inits, sent, conv, rem,
                   records, user_data, creates, manager, adding>>
    /\ UNCHANGED opsvars

---------------------------------------------------------------------------
(* Specifications *)

Next ==
    \/ InitialCheck
    \/ PeriodicCheck
    \/ PeriodicSkipped
    \/ \E p \in Slots : BotQuery(p)
    \/ \E p \in Slots : BotCheck(p)
    \/ \E p \in Slots : BotAdd(p)
    \/ \E p \in Slots : DbQuery(p)
    \/ \E p \in Slots : PassReturn(p)
    \/ Advance
    \/ Boot
    \/ Crash

Spec == Init /\ [][Next]_vars

(* The same program over the table that has two groups on one weekday. *)
TableInit == InitWith({AltSchedules}, UserTables)
TableSpec == TableInit /\ [][Next]_vars

(* The program with a database that can fail, started in any of the ways,   *)
(* with the registration conversation, over an empty schedules table or a   *)
(* table filled by other means.  Chat 2 is registered in the weekend group  *)
(* and does not write to the bot; chat 1 is unknown until it registers.     *)
StoreUsers ==
    { t \in UserTables : DOMAIN t = {2} /\ t[2].group_type = "weekend" }

StoreInit == InitWith({<<>>, AltSchedules}, StoreUsers)

(* The chat that talks to the bot. *)
Talking == {1}

StoreNext ==
    \/ Next
    \/ \E p \in Slots : BotQueryFails(p)
    \/ \E p \in Slots : DbQueryFails(p)
    \/ BootStoreDown
    \/ Main
    \/ \E c \in Talking : start(c)
    \/ \E c \in Talking : group_choice(c)
    \/ \E c \in Talking : start_date_entered(c)
    \/ \E c \in Talking : cancel(c)

StoreSpec == StoreInit /\ [][StoreNext]_vars

(* Runs of the reminder script over any users table, while time passes. *)
ScriptNext ==
    \/ ScriptStart
    \/ ScriptSend
    \/ ScriptExit
    \/ Advance

ScriptSpec == Init /\ [][ScriptNext]_vars

(* The handlers: both applications, add_manager beside them, a database and *)
(* a transport that can fail, a manager chat that is configured or not.     *)
(* Chat 1 is unknown or in the weekday group; chat 2 is unknown or active   *)
(* and does not write to the bot.                                           *)
RegUsers ==
    { t \in UserTables :
        1 \in DOMAIN t =>
            t[1].group_type = "weekday" /\ t[1].start_date = Combine(FirstDate, 0) }

RegInit == InitOf({SeedSchedules}, RegUsers, BOOLEAN)

RegNext ==
    \/ Main
    \/ HandlersApp
    \/ Crash
    \/ \E c \in Talking : start(c)
    \/ \E c \in Talking : startFails(c)
    \/ \E c \in Talking : group_choice(c)
    \/ \E c \in Talking : group_choiceFails(c)
    \/ \E c \in Talking : start_date_entered(c)
    \/ \E c \in Talking : start_date_enteredFails(c)
    \/ \E c \in Talking : cancel(c)
    \/ \E c \in Talking : cancelFails(c)
    \/ \E c \in ChatIds : add_manager(c)
    \/ add_manager_commit
    \/ \E c \in Talking : feedback_message(c)
    \/ \E c \in Talking : start_command(c)
    \/ \E c \in Talking : choose_group(c)
    \/ \E c \in Talking : enter_start_date(c)
    \/ \E c \in Talking : cancel_registration(c)
    \/ \E c \in Talking : process_feedback(c)

RegSpec == RegInit /\ [][RegNext]_vars

(* Runs of one of the availability checks, against a service that answers   *)
(* in any way.                                                              *)
AvailNext ==
    \/ AvailStart
    \/ AvailRequest
    \/ AvailSleep
    \/ AvailGiveUp

AvailSpec == Init /\ [][AvailNext]_vars

(* Runs of run_setup while other tools change the webhook, and the import   *)
(* of database.py followed by checks of the connection.                     *)
OpsNext ==
    \/ run_setup
    \/ WebhookChanged
    \/ ImportDatabase
    \/ check_database_connection

OpsSpec == InitWith({SeedSchedules}, {<<>>}) /\ [][OpsNext]_vars

(* The same with the condition that a check that can take a step takes it:  *)
(* it is a sequential program that is not stopped.                          *)
AvailLive == AvailSpec /\ WF_vars(AvailNext)

---------------------------------------------------------------------------
(* Properties *)

Queried(p) == pass[p].pc \in {"loop", "add", "done"}
Finished(p) == pass[p].pc = "done"

(* The schedule rows of the pass's date, the minutes from a row's class end *)
(* to the pass's now, and the pass's (chat_id, date) pair of a chat.        *)
Today(p) == { s \in Range(schedules) : s.day_of_week = get_weekday(pass[p].now) }
EndDiff(p, s) == TimeOf(pass[p].now) - s.end_time
PairOf(p, c) == <<c, DateOf(pass[p].now)>>

(* An active user of the row's group; a start date that is set and has come. *)
Enrolled(row, s) == row.is_active /\ row.group_type = s.group_type
Begun(row, t) == row.start_date # NullDate /\ row.start_date <= t

(* C1: for every (chat_id, date) pair at most one dispatch exists, whatever *)
(* the passes, their interleaving and the restarts were.                    *)
C1_AtMostOneDispatch == \A k \in Keys : Dispatches(k) <= 1

(* C2: when a pass that ran alone inside the grace window of a class end    *)
(* has returned, however many passes ran in that window before it, every    *)
(* active user of the group whose start date has come has exactly one       *)
(* dispatch for the day.                                                    *)
C2_IdempotentInWindow ==
    \A p \in Slots : (Finished(p) /\ ~pass[p].overlap) =>
        \A s \in Today(p), c \in DOMAIN pass[p].seen :
            ( /\ Enrolled(pass[p].seen[c], s)
              /\ Begun(pass[p].seen[c], pass[p].now)
              /\ 0 <= EndDiff(p, s) /\ EndDiff(p, s) <= GraceWindow )
            => Dispatches(PairOf(p, c)) = 1

(* C3: when a pass that ran at the same time as the other pass has          *)
(* returned, every pair it found eligible and that had no dispatch when it  *)
(* started has exactly one dispatch.                                        *)
C3_ConcurrentPassesOneDispatch ==
    \A p \in Slots : (Finished(p) /\ pass[p].overlap) =>
        \A c \in Chats(pass[p].eligible) \ pass[p].prior :
            Dispatches(PairOf(p, c)) = 1

(* C4: once the process has been restarted, there is still at most one      *)
(* dispatch for every (chat_id, date) pair, the dispatches made before the  *)
(* restart and after it counted together.                                   *)
C4_AtMostOneAcrossRestart ==
    restarts > 0 => \A k \in Keys : Dispatches(k) <= 1

(* C5, as the specification states it: a pass whose now is the class end    *)
(* finds every active user of a group with a schedule row for today         *)
(* eligible.                                                                *)
C5_BoundaryEveryActiveUser ==
    \A p \in Slots : Queried(p) =>
        \A s \in Today(p), c \in DOMAIN pass[p].seen :
            (Enrolled(pass[p].seen[c], s) /\ EndDiff(p, s) = 0)
            => Item(c, s) \in pass[p].eligible

(* C5: a pass whose now is the class end finds every active user of a group *)
(* with a schedule row for today whose start date is set and not after now  *)
(* eligible, and the pair has a dispatch when the pass has returned.        *)
C5_BoundaryEligible ==
    \A p \in Slots : Queried(p) =>
        \A s \in Today(p), c \in DOMAIN pass[p].seen :
            ( /\ Enrolled(pass[p].seen[c], s)
              /\ Begun(pass[p].seen[c], pass[p].now)
              /\ EndDiff(p, s) = 0 )
            => /\ Item(c, s) \in pass[p].eligible
               /\ Finished(p) => dispatched[PairOf(p, c)] >= 1

C5_BoundaryReached ==
    \E p \in Slots : Finished(p) /\
        \E s \in Today(p), c \in DOMAIN pass[p].seen :
            /\ Enrolled(pass[p].seen[c], s)
            /\ Begun(pass[p].seen[c], pass[p].now)
            /\ EndDiff(p, s) = 0
            /\ Item(c, s) \in pass[p].eligible
            /\ dispatched[PairOf(p, c)] >= 1

(* C6: a pass after the class end and inside the grace window creates the   *)
(* dispatch of an eligible user who had none when the pass started, and     *)
(* creates none for a user who had one.                                     *)
C6_InWindowOnce ==
    \A p \in Slots : Finished(p) =>
        \A s \in Today(p), c \in DOMAIN pass[p].seen :
            ( /\ Enrolled(pass[p].seen[c], s)
              /\ Begun(pass[p].seen[c], pass[p].now)
              /\ 0 < EndDiff(p, s) /\ EndDiff(p, s) <= GraceWindow )
            => /\ c \in pass[p].prior => c \notin pass[p].added
               /\ (c \notin pass[p].prior /\ ~pass[p].overlap) => c \in pass[p].added

(* C7: a pass later than the grace window after a class end finds no user   *)
(* eligible for that class and creates dispatches for eligible users only.  *)
C7_NoBackfill ==
    \A p \in Slots : Queried(p) =>
        /\ \A s \in Today(p), c \in DOMAIN pass[p].seen :
               EndDiff(p, s) > GraceWindow => Item(c, s) \notin pass[p].eligible
        /\ pass[p].added \subseteq Chats(pass[p].eligible)

C7_LatePassReached ==
    \E p \in Slots : Finished(p) /\
        \E s \in Today(p), c \in DOMAIN pass[p].seen :
            /\ Enrolled(pass[p].seen[c], s)
            /\ Begun(pass[p].seen[c], pass[p].now)
            /\ EndDiff(p, s) > GraceWindow
            /\ dispatched[PairOf(p, c)] = 0
            /\ pass[p].eligible = {}
            /\ pass[p].added = {}

C9_InactiveNeverEligible ==
    \A p \in Slots :
        /\ \A it \in pass[p].eligible : pass[p].seen[it.chat].is_active
        /\ \A c \in pass[p].added : pass[p].seen[c].is_active

C9_InactiveSkipped ==
    \E p \in Slots : Finished(p) /\
        \E s \in Today(p), c \in DOMAIN pass[p].seen :
            /\ ~pass[p].seen[c].is_active
            /\ pass[p].seen[c].group_type = s.group_type
            /\ Begun(pass[p].seen[c], pass[p].now)
            /\ EndDiff(p, s) = 0
            /\ Item(c, s) \notin pass[p].eligible
            /\ dispatched[PairOf(p, c)] = 0

(* C10: no pass finds a user whose start date is later than the pass's now  *)
(* eligible, and no pass creates a dispatch for such a user.                *)
C10_FutureStartNeverEligible ==
    \A p \in Slots :
        /\ \A it \in pass[p].eligible :
               pass[p].seen[it.chat].start_date <= pass[p].now
        /\ \A c \in pass[p].added : pass[p].seen[c].start_date <= pass[p].now

(* The groups that have a class today whose end lies in the grace window    *)
(* that holds the pass's now.                                               *)
Matching(p) ==
    { s.group_type : s \in { r \in Today(p) : InGraceWindow(EndDiff(p, r)) } }

(* Two groups have rows for the pass's weekday with different end times. *)
TwoGroupsToday(p) ==
    \E s1, s2 \in Today(p) :
        s1.group_type # s2.group_type /\ s1.end_time # s2.end_time

(* C11: two groups have classes today that end at different times.  A pass  *)
(* whose now matches the class end of one group only creates dispatches for *)
(* users of that group only, and when it has returned every active user of  *)
(* that group whose start date has come has a dispatch.                     *)
C11_GroupIsolation ==
    \A p \in Slots, g \in Groups :
        (Finished(p) /\ TwoGroupsToday(p) /\ Matching(p) = {g}) =>
            /\ \A c \in pass[p].added : pass[p].seen[c].group_type = g
            /\ \A c \in DOMAIN pass[p].seen :
                   ( /\ pass[p].seen[c].is_active
                     /\ pass[p].seen[c].group_type = g
                     /\ Begun(pass[p].seen[c], pass[p].now) )
                   => Dispatches(PairOf(p, c)) >= 1

(* C12: bot.py names the job after the chat and the date.  When a pass has  *)
(* returned, every chat it found eligible, in one schedule row or in two    *)
(* rows with different end times, in a first pass or in a rerun, has        *)
(* exactly one job for the date.                                            *)
C12_DateScopedKey ==
    impl = "bot" =>
        \A p \in Slots : Finished(p) =>
            \A c \in Chats(pass[p].eligible) : BotDispatches(PairOf(p, c)) = 1

(* C13: every dispatch leads to a send_message call for the chat.  A job of *)
(* bot.py is due at the class end of its date: once that date is over, no   *)
(* pass is running and the job is still among the jobs of the running       *)
(* process, the call has been made.  The list users_to_notify of            *)
(* database.py ends with the pass: when the pass has returned, the call has *)
(* been made for each chat in it.                                           *)
C13_DispatchReachesNotifier ==
    /\ \A k \in Keys :
           ( /\ up /\ BotDispatches(k) > 0 /\ DateOf(now) > k[2]
             /\ \A p \in Slots : pass[p].pc = "idle" )
           => sent[k] >= 1
    /\ \A p \in Slots : (impl = "db" /\ Finished(p)) =>
           \A c \in pass[p].added : sent[PairOf(p, c)] >= 1

C16_StoreFailureAbandonsPass ==
    \A p \in Slots : (Finished(p) /\ pass[p].fault) =>
        /\ pass[p].result \in {"False", "raised"}
        /\ pass[p].added = {}

(* C17: the process was started by main and has been running for the       *)
(* interval of the poll or longer: a scheduling pass has been invoked.      *)
C17_PeriodicTrigger ==
    (up /\ entry = "main" /\ now >= bootAt + PollInterval) => invoked

(* The six default rows: weekday group, days 0 to 4, end 18:00; weekend     *)
(* group, day 5, end 14:00.                                                 *)
DefaultRows ==
    { [group_type |-> "weekday", day_of_week |-> d, end_time |-> 18 * 60] :
        d \in 0 .. 4 }
    \cup { [group_type |-> "weekend", day_of_week |-> 5, end_time |-> 14 * 60] }

(* C18: a call of init_schedule that returns True turns the empty table     *)
(* into exactly the six default rows and leaves a table that has rows as it *)
(* is, so a second call and every later one changes nothing.                *)
C18_SeedingOnceOnly ==
    [][inits' > inits =>
        IF schedules = <<>>
        THEN Len(schedules') = 6 /\ Range(schedules') = DefaultRows
        ELSE schedules' = schedules]_vars

C18_SeededTwice ==
    /\ inits = 2
    /\ restarts = 1
    /\ Len(schedules) = 6
    /\ Range(schedules) = DefaultRows

(* C19: once the schedules table has rows, no step of the program (handler, *)
(* pass, registration, start of the process) changes it.                    *)
C19_ScheduleImmutable ==
    [][schedules # <<>> => schedules' = schedules]_vars

C19_AllKindsActed ==
    /\ schedules # <<>>
    /\ entry = "setup_scheduler"
    /\ restarts = 1
    /\ inits = 1
    /\ 1 \in DOMAIN users
    /\ users[1].is_active
    /\ users[1].start_date # NullDate
    /\ \E p \in Slots : Finished(p) /\ 1 \in pass[p].added

(* C20: a step of a running pass, whether its reads succeed or fail, leaves *)
(* the users table and the schedules table as they are.                     *)
C20_PassIsPureQuery ==
    [][(\E p \in Slots : pass[p].pc # "idle" /\ pass'[p] # pass[p])
        => (users' = users /\ schedules' = schedules)]_vars

C20_FailedPassReturned ==
    \E p \in Slots :
        /\ Finished(p)
        /\ pass[p].fault
        /\ pass[p].added # {}
        /\ pass[p].seen = users
        /\ schedules = AltSchedules

(* C23: in every pass the weekday that selects the schedule rows is the     *)
(* weekday of the date of the pass's now, the date the class end and the    *)
(* dispatch key are computed from, also when the clock moves over midnight  *)
(* while the pass runs.                                                     *)
C23_WeekdayOfSameNow ==
    \A p \in Slots : Queried(p) => pass[p].weekday = get_weekday(pass[p].now)

(* A user row the conversation has not completed: no group or no start date. *)
Partial(row) == row.group_type = "NULL" \/ row.start_date = NullDate

DueAt(p, it) ==
    IF impl = "bot" THEN Combine(DateOf(pass[p].now), it.end_time)
    ELSE pass[p].now

(* The class ends, on the pass's date, of the group the chat is in. *)
ClassEnds(p, c) ==
    { Combine(DateOf(pass[p].now), s.end_time) :
        s \in { r \in Today(p) : r.group_type = pass[p].seen[c].group_type } }

C21_UniqueIdentity ==
    \A c \in ChatIds :
        /\ records[c] <= 1
        /\ records[c] = 1 <=> c \in DOMAIN users
        /\ c \in DOMAIN users => users[c].group_type \in Groups \cup {"NULL"}

(* add_manager looked a chat up before the chat registered, and its INSERT  *)
(* was refused.                                                             *)
C21_SecondInsertRefused ==
    /\ last.op = "add_manager" /\ last.fault = "insert"
    /\ last.returned = "False"
    /\ records[last.chat] = 1
    /\ last.chat \in DOMAIN last.before

(* C22: no step of the program removes a user row: a chat_id that has a row *)
(* keeps it, so the set of registered chat_ids never shrinks.               *)
C22_NeverDeleted ==
    [][\A c \in ChatIds :
          c \in DOMAIN users => c \in DOMAIN users' /\ records'[c] >= records[c]]_vars

(* The entry command of an inactive user was handled after a restart: the   *)
(* row is still there, and active again.                                    *)
C22_InactiveKept ==
    /\ restarts = 1
    /\ last.op = "start" /\ last.fault = "none"
    /\ last.chat \in DOMAIN last.before
    /\ ~last.before[last.chat].is_active
    /\ last.chat \in DOMAIN users /\ users[last.chat].is_active

(* C25: every text a registered user sends as feedback while a manager chat *)
(* is configured leads to exactly one attempt to send it to that chat.      *)
C25_FeedbackRelayedOnce ==
    (/\ last.op \in {"feedback_message", "process_feedback"}
     /\ last.chat \in DOMAIN last.before
     /\ manager)
    => last.attempts = 1

(* The call handled a text that is no label of the group keyboard, or a     *)
(* text that names no day.                                                  *)
NoLabel(text) == \A g \in Groups : text # Label(g)
NoDay(text) == text.day = NullDate
Refused ==
    \/ last.op = "choose_group" /\ NoLabel(last.input)
    \/ last.op \in {"start_date_entered", "enter_start_date"} /\ NoDay(last.input)

(* C27: a text that matches no group in CHOOSING_GROUP, or that is not a    *)
(* date in ENTERING_START_DATE, leaves the conversation in the same state,  *)
(* the users table as it was and the stored group choice unchanged.         *)
C27_InvalidInputSelfLoop ==
    Refused =>
        /\ conv[last.chat] = last.was
        /\ users = last.before
        /\ records[last.chat] = (IF last.chat \in DOMAIN last.before THEN 1 ELSE 0)
        /\ user_data[last.chat] = last.data

(* bot.py start_date_entered has answered a text that names no day, for a   *)
(* chat whose row and user_data hold the chosen group.                      *)
C27_DateRefused ==
    /\ last.op = "start_date_entered" /\ NoDay(last.input)
    /\ last.input.form = "DD.MM.YYYY"
    /\ last.was = "ENTERING_START_DATE" /\ conv[last.chat] = "ENTERING_START_DATE"
    /\ last.data \in Groups
    /\ last.chat \in DOMAIN users /\ users[last.chat].start_date = NullDate


(* C28: in the handlers/start.py conversation a row is created only by      *)
(* start_date_entered on a date, after a group was chosen; start_command,   *)
(* group_choice and cancel create none; and create_new_user is called at    *)
(* most once in a conversation.                                             *)
HandlersKept ==
    last.op \in {"start_command", "choose_group", "cancel_registration"} =>
        /\ users = last.before
        /\ records[last.chat] = (IF last.chat \in DOMAIN last.before THEN 1 ELSE 0)

CreatedByDate ==
    (last.op = "enter_start_date" /\ users # last.before) =>
        /\ last.was = "ENTERING_START_DATE"
        /\ ~NoDay(last.input)
        /\ last.data \in Groups
        /\ DOMAIN users = DOMAIN last.before \cup {last.chat}

C28_CreatedOnceByValidDate ==
    /\ HandlersKept
    /\ CreatedByDate
    /\ \A c \in ChatIds : creates[c] <= 1


(* C29: after the entry command of a chat that already has a row, in either *)
(* application, the conversation of the chat is ended, the chat still has   *)
(* one row, no row was added, every group_type and start_date is as before, *)
(* and the only is_active that may differ is the one of the chat, which     *)
(* went from false to true.                                                 *)
Reentered ==
    /\ last.op \in {"start", "start_command"}
    /\ last.chat \in DOMAIN last.before

C29_ReRegistrationKeepsUser ==
    Reentered =>
        /\ conv[last.chat] = "END"
        /\ records[last.chat] = 1
        /\ DOMAIN users = DOMAIN last.before
        /\ \A k \in DOMAIN users :
             /\ users[k].group_type = last.before[k].group_type
             /\ users[k].start_date = last.before[k].start_date
             /\ users[k].is_active # last.before[k].is_active =>
                  k = last.chat /\ ~last.before[k].is_active

C29_KnownChatReentered ==
    /\ Reentered
    /\ last.op = "start"
    /\ last.returned = "END"
    /\ ~last.before[last.chat].is_active
    /\ users[last.chat].is_active
    /\ users[last.chat].group_type \in Groups
    /\ users[last.chat].start_date # NullDate


(* C30: a call of bot.py start in which check_database_connection returns   *)
(* False or get_session raises returns END, leaves the conversation of the  *)
(* chat ended and not in CHOOSING_GROUP, and leaves the users table and the  *)
(* number of rows of the chat as they were.                                 *)
StoreDownAtStart ==
    last.op = "start" /\ last.fault \in {"connection", "session"}

C30_StartWithoutDatabase ==
    StoreDownAtStart =>
        /\ last.returned = "END"
        /\ conv[last.chat] = "END"
        /\ users = last.before
        /\ records[last.chat] = (IF last.chat \in DOMAIN last.before THEN 1 ELSE 0)

C30_UnknownChatTurnedAway ==
    /\ StoreDownAtStart
    /\ last.fault = "session"
    /\ last.chat \notin DOMAIN users
    /\ records[last.chat] = 0
    /\ conv[last.chat] = "END"


(* C31: after process_feedback on a text of a user without a row, nothing   *)
(* was saved, nothing was sent to the administrator, no thank-you reply was *)
(* sent, the register prompt was sent once, and it is what the user got     *)
(* unless that reply failed.                                                *)
FromStranger ==
    last.op = "process_feedback" /\ last.chat \notin DOMAIN last.before

C31_UnregisteredFeedbackDropped ==
    FromStranger =>
        /\ last.did.saved = 0
        /\ last.did.attempts = 0
        /\ last.did.thanks = 0
        /\ last.did.prompts = 1
        /\ last.fault # "reply" => last.did.got = "register"

C31_StrangerPrompted ==
    /\ FromStranger
    /\ manager
    /\ last.did.got = "register"
    /\ last.chat \notin DOMAIN users

(* C32: after a feedback handler on a text of a registered user, the        *)
(* thank-you reply was sent exactly once, whether save_feedback failed, no  *)
(* administrator is configured or the send to the administrator raised, and *)
(* it is what the user got unless that reply itself failed.                 *)
FromRegistered ==
    /\ last.op \in {"process_feedback", "feedback_message"}
    /\ last.chat \in DOMAIN last.before

C33_EveryUserAttemptedOnce ==
    /\ \A c \in ChatIds : rem.attempts[c] <= 1
    /\ rem.success_count + rem.failure_count
           = Cardinality({ c \in ChatIds : rem.attempts[c] = 1 })
    /\ rem.pc = "done" =>
          /\ \A c \in ChatIds : rem.attempts[c] = (IF c \in Range(rem.users) THEN 1 ELSE 0)
          /\ rem.success_count + rem.failure_count = Len(rem.users)

C33_AllFailedAllAttempted ==
    /\ rem.pc = "done"
    /\ rem.users = <<1, 2>>
    /\ rem.failed = {1, 2}
    /\ rem.attempts[1] = 1 /\ rem.attempts[2] = 1
    /\ rem.failure_count = 2
    /\ rem.success_count = 0


(* A check that was started comes to its end. *)
AvailTerminates == (avail.pc # "idle") ~> (avail.pc = "done")

(* C34: a service-availability check makes at most 3 requests, makes no     *)
(* request after a response of success, and sleeps only between two         *)
(* requests, never after the third.                                         *)
C34_BoundedAvailabilityRetry ==
    /\ avail.requests <= 3
    /\ \A i \in 1 .. Len(avail.responses) - 1 : ~Successful(avail.responses[i])
    /\ \A i \in DOMAIN avail.waited : avail.waited[i] < 3
    /\ avail.waits <= avail.requests
    /\ avail.pc \in {"exhausted", "done"} /\ avail.requests > 0 =>
           avail.waits = avail.requests - 1


(* C35 as stated: run_setup has called set_webhook only after both checks   *)
(* succeeded and only if Telegram held no webhook URL or one that differs   *)
(* from the configured WEBHOOK_URL; after a failed check it has returned    *)
(* False and has set no webhook.                                            *)
ChecksFirst ==
    /\ setup.called => setup.database = "True" /\ setup.api = "True"
    /\ (setup.database = "False" \/ setup.api = "False") =>
          /\ setup.result = "False"
          /\ ~setup.called
          /\ setup.info = "unasked"

C35_SetOnlyWhenUnsetOrDifferent ==
    /\ ChecksFirst
    /\ setup.called =>
          \/ setup.was = "none"
          \/ setup.configured /\ setup.was # "configured"

(* C35, amended: ... or if check_webhook_status could not obtain the        *)
(* webhook information, whatever URL Telegram holds.                        *)
C35_SetOnlyWhenUnsetDifferentOrUnknown ==
    /\ ChecksFirst
    /\ setup.called =>
          \/ setup.info = "failed"
          \/ setup.was = "none"
          \/ setup.configured /\ setup.was # "configured"

C35_SetAfterFailedStatus ==
    /\ setup.called
    /\ setup.info = "failed"
    /\ setup.configured
    /\ setup.was = "configured"
    /\ setup.result = "True"
    /\ hook = "configured"


====
